---- MODULE Spec2Model ----
(***************************************************************************)
(* State-machine model of src/app.py, a Streamlit study tool over a table  *)
(* of interview questions.  Streamlit re-executes the whole script on      *)
(* every user interaction; st.session_state (bookmarks, current_index,     *)
(* reveal) and the widget values (mode, selected_categories, search_query) *)
(* survive between runs.  Every action below is one user interaction       *)
(* together with the complete script run(s) it triggers, including the     *)
(* clamp of current_index and the page that is rendered at the end.        *)
(*                                                                         *)
(* Text cells are sequences of one-character strings so that the search    *)
(* (pandas Series.str.contains) can be computed character by character.    *)
(* Modelled CSV files hold non-empty string cells and unique integer IDs.  *)
(***************************************************************************)
EXTENDS Integers, Sequences, FiniteSets, TLC

\* ------------------------------------------------------------------------
\* State
\* ------------------------------------------------------------------------
VARIABLES
  file,                 \* FILE_PATH as load_data() found it (never changes)
  mode,                 \* the "Study Mode" radio
  selected_categories,  \* the "Filter by Category" multiselect
  search_query,         \* the Browse page's text input
  bookmarks,            \* st.session_state.bookmarks
  current_index,        \* st.session_state.current_index
  reveal,               \* st.session_state.reveal
  error,                \* the exception that ended the last script run
  screen,               \* what the last script run rendered
  last,                 \* observation: the last interaction
  pre,                  \* observation: cursor and reveal flag before it
  streak                \* observation: run of identical navigation presses

vars == <<file, mode, selected_categories, search_query, bookmarks,
          current_index, reveal, error, screen, last, pre, streak>>

\* ------------------------------------------------------------------------
\* Bounds of the model
\* ------------------------------------------------------------------------
\* Largest number of rows of a user-supplied CSV file.
MaxRows == 2

\* Longest search string typed in the filter harness.
MaxQueryLen == 2

\* ------------------------------------------------------------------------
\* Data
\* ------------------------------------------------------------------------
required_cols == {"ID", "Category", "Question", "Answer"}

\* The five rows create_demo_data() builds, writes to FILE_PATH and returns.
create_demo_data ==
  [columns |-> required_cols,
   rows |-> <<
      [ID |-> 1, Category |-> "Basics",
       Question |-> <<"W","h","a","t"," ","i","s"," ","R","e","a","c","t","?">>,
       Answer |-> <<"A"," ","J","S"," ","l","i","b","r","a","r","y"," ","f","o","r"," ","b","u","i","l","d","i","n","g"," ","U","I","s",".">>],
      [ID |-> 2, Category |-> "Hooks",
       Question |-> <<"W","h","a","t"," ","i","s"," ","u","s","e","E","f","f","e","c","t","?">>,
       Answer |-> <<"A"," ","h","o","o","k"," ","f","o","r"," ","s","i","d","e"," ","e","f","f","e","c","t","s",".">>],
      [ID |-> 3, Category |-> "Components",
       Question |-> <<"D","i","f","f","e","r","e","n","c","e"," ","b","e","t","w","e","e","n"," ","C","l","a","s","s"," ","a","n","d"," ","F","u","n","c","t","i","o","n","a","l"," ","c","o","m","p","o","n","e","n","t","s","?">>,
       Answer |-> <<"C","l","a","s","s"," ","u","s","e","s"," ","t","h","i","s",".","s","t","a","t","e",","," ","F","u","n","c"," ","u","s","e","s"," ","h","o","o","k","s",".">>],
      [ID |-> 501, Category |-> "System Design",
       Question |-> <<"D","e","s","i","g","n"," ","a","n"," ","I","n","f","i","n","i","t","e"," ","S","c","r","o","l","l"," ","f","e","e","d",".">>,
       Answer |-> <<"U","s","e"," ","V","i","r","t","u","a","l","i","z","a","t","i","o","n"," ","(","W","i","n","d","o","w","i","n","g",")"," ","a","n","d"," ","D","O","M"," ","r","e","c","y","c","l","i","n","g",".">>],
      [ID |-> 502, Category |-> "System Design",
       Question |-> <<"A","r","c","h","i","t","e","c","t"," ","a"," ","R","e","a","l","-","T","i","m","e"," ","C","h","a","t"," ","A","p","p",".">>,
       Answer |-> <<"U","s","e"," ","W","e","b","S","o","c","k","e","t","s",","," ","O","p","t","i","m","i","s","t","i","c"," ","U","I",","," ","a","n","d"," ","I","n","d","e","x","e","d","D","B",".">>]
   >>]

\* Rows a user-supplied CSV file may be made of.
CsvRowPool ==
  { [ID |-> 7, Category |-> "Hooks", Question |-> <<"a","B">>, Answer |-> <<"b">>],
    [ID |-> 8, Category |-> "State", Question |-> <<"b",".">>, Answer |-> <<"A","b">>],
    [ID |-> 9, Category |-> "Hooks", Question |-> <<"b","b">>, Answer |-> <<"b">>] }

RECURSIVE SeqsOver(_, _)
\* All sequences of length <= n of pairwise distinct elements of S.
SeqsOver(S, n) ==
  IF n = 0 THEN { <<>> }
  ELSE LET shorter == SeqsOver(S, n - 1)
       IN shorter \cup
          { Append(s, x) : s \in { u \in shorter : Len(u) = n - 1 },
                           x \in S } 

Distinct(s) == \A i, j \in 1..Len(s) : i # j => s[i] # s[j]

\* The state of FILE_PATH when load_data() first runs.
CsvFile(cols, rows) ==
  [exists |-> TRUE, readable |-> TRUE, columns |-> cols, rows |-> rows]

MissingFile ==
  [exists |-> FALSE, readable |-> FALSE, columns |-> {}, rows |-> <<>>]

\* A file pd.read_csv raises on (empty file, undecodable bytes, ...).
UnreadableFile ==
  [exists |-> TRUE, readable |-> FALSE, columns |-> {}, rows |-> <<>>]

\* A well-formed CSV that lacks the Category column.
NoCategoryFile == CsvFile({"ID", "Question", "Answer"}, <<>>)

WellFormedFiles ==
  { CsvFile(required_cols, rows) :
      rows \in { s \in SeqsOver(CsvRowPool, MaxRows) : Distinct(s) } }

FailingFiles == { MissingFile, UnreadableFile, NoCategoryFile }

\* load_data(): the table the rest of the script works on.
load_data(found) ==
  IF ~found.exists THEN create_demo_data
  ELSE IF ~found.readable THEN [columns |-> {}, rows |-> <<>>]
  ELSE IF ~(required_cols \subseteq found.columns)
       THEN [columns |-> required_cols, rows |-> <<>>]
  ELSE [columns |-> found.columns, rows |-> found.rows]

\* ------------------------------------------------------------------------
\* Text search: Series.str.contains(pat, case=False), regex=True by default,
\* i.e. re.compile(pat, re.IGNORECASE).search(text) per cell.  Patterns are built
\* from literal letters and ".", so every pattern character consumes
\* exactly one character of the text.
\* ------------------------------------------------------------------------
LowerOf ==
  ("A" :> "a")
  @@ ("B" :> "b")
  @@ ("C" :> "c")
  @@ ("D" :> "d")
  @@ ("E" :> "e")
  @@ ("F" :> "f")
  @@ ("G" :> "g")
  @@ ("H" :> "h")
  @@ ("I" :> "i")
  @@ ("J" :> "j")
  @@ ("K" :> "k")
  @@ ("L" :> "l")
  @@ ("M" :> "m")
  @@ ("N" :> "n")
  @@ ("O" :> "o")
  @@ ("P" :> "p")
  @@ ("Q" :> "q")
  @@ ("R" :> "r")
  @@ ("S" :> "s")
  @@ ("T" :> "t")
  @@ ("U" :> "u")
  @@ ("V" :> "v")
  @@ ("W" :> "w")
  @@ ("X" :> "x")
  @@ ("Y" :> "y")
  @@ ("Z" :> "z")

UpperCase == DOMAIN LowerOf

\* str.lower() of one character.
Lower(c) == IF c \in UpperCase THEN LowerOf[c] ELSE c

RECURSIVE re_compile(_)
\* re.compile(pat, re.IGNORECASE): the pattern with its letters case-folded.
re_compile(pat) ==
  IF pat = <<>> THEN <<>>
  ELSE <<Lower(Head(pat))>> \o re_compile(Tail(pat))

\* One compiled pattern character against one text character: "." is any
\* character but a newline, a letter is itself in either case.
CharMatches(p, c) ==
  IF p = "." THEN c # "\n" ELSE p = Lower(c)

\* regex.search(text): the compiled pattern matches at some position.
re_search(regex, text) ==
  \E i \in 0..(Len(text) - Len(regex)) :
     \A j \in 1..Len(regex) : CharMatches(regex[j], text[i + j])

\* ------------------------------------------------------------------------
\* Derived tables
\* ------------------------------------------------------------------------
SetOf(s) == { s[i] : i \in 1..Len(s) }

IdsOf(rows) == { rows[i].ID : i \in 1..Len(rows) }

all_categories(table) == { table.rows[i].Category : i \in 1..Len(table.rows) }

\* Lines 160-163: the category filter (rows only; reset_index renumbers).
filtered_df(table, selected) ==
  IF selected # {}
  THEN LET isin(r) == r.Category \in selected
       IN SelectSeq(table.rows, isin)
  ELSE table.rows

\* Lines 175-181: the search filter of the Browse page.
display_df(filtered, query) ==
  IF query # <<>>
  THEN LET regex == re_compile(query)
           hit(r) == re_search(regex, r.Question)
                     \/ re_search(regex, r.Answer)
       IN SelectSeq(filtered, hit)
  ELSE filtered

\* Mutant: the bookmarked rows are taken from the category-filtered table.
bookmark_df_filtered(table, bm) ==
  LET isin(r) == r.ID \in bm
  IN SelectSeq(filtered_df(table, selected_categories), isin)

\* Line 307: the rows of the full table whose ID is bookmarked.
bookmark_df(table, bm) ==
  LET isin(r) == r.ID \in bm
  IN SelectSeq(table.rows, isin)

\* Mutants of the clamp: the comparison off by one, and no clamp at all.
ClampedIndexOffByOne(idx, n) == IF idx > n THEN 0 ELSE idx

ClampedIndexMissing(idx, n) == idx

\* Lines 226-227: the defensive clamp of the Flashcards page.
ClampedIndex(idx, n) == IF idx >= n THEN 0 ELSE idx

\* Mutant: Previous stops at the first card instead of wrapping around.
PreviousIndexNoWrap(idx, n) == IF idx = 0 THEN 0 ELSE idx - 1

\* Line 237, 249, 243: the three navigation buttons (Python % is floored).
PreviousIndex(idx, n) == (idx - 1) % n

\* Mutant: Next stops at the last card instead of wrapping around.
NextIndexNoWrap(idx, n) == IF idx = n - 1 THEN idx ELSE idx + 1

NextIndex(idx, n) == (idx + 1) % n

\* Mutant: the random pick avoids the card already shown.
RandomIndexesOther(n) == (0..(n - 1)) \ {current_index}

\* Line 243: random.randint(0, n - 1), both ends included.
RandomIndexes(n) == 0..(n - 1)

\* set.add / set.remove of the bookmark set.  set.remove raises KeyError
\* when the element is absent.
set_add(bm, id) == bm \cup {id}

set_remove(bm, id) ==
  IF id \in bm THEN [set |-> bm \ {id}, error |-> "none"]
  ELSE [set |-> bm, error |-> "KeyError"]

\* ------------------------------------------------------------------------
\* The session
\* ------------------------------------------------------------------------
\* Line 120: df = load_data().  @st.cache_data keeps the first result, so the
\* table is a function of the file the session started on.
df == load_data(file)

Browse == "Browse & Search"

Flashcards == "Flashcards"

Bookmarks == "My Bookmarks"

Modes == {Browse, Flashcards, Bookmarks}

\* The IDs of rows, in order: a rendered row is identified by its ID.
IdSeq(rows) == [i \in 1..Len(rows) |-> rows[i].ID]

\* A rendered page: the IDs of the rows listed, the ID of the card shown
\* (a sequence of at most one), and whether the answer section is shown.
Page(kind, listed, card, answer) ==
  [kind |-> kind, listed |-> listed, card |-> card, answer |-> answer]

\* A run that ended in an exception renders the traceback only.
CrashPage == Page("crash", <<>>, <<>>, FALSE)

\* DataFrame.iloc[i]: IndexError when i is out of bounds.
iloc(rows, i) ==
  IF i \in 0..(Len(rows) - 1)
  THEN [row |-> <<rows[i + 1]>>, error |-> "none"]
  ELSE [row |-> <<>>, error |-> "IndexError"]

\* Lines 219-295 up to the buttons: the Flashcards page.
FlashcardsPage(filtered, idx, rev) ==
  IF filtered = <<>>
  THEN [error |-> "none", current_index |-> idx,
        screen |-> Page("flash_empty", <<>>, <<>>, FALSE)]
  ELSE LET i == ClampedIndex(idx, Len(filtered))
           current_q == iloc(filtered, i)
       IN IF current_q.error # "none"
          THEN [error |-> current_q.error, current_index |-> i,
                screen |-> CrashPage]
          ELSE [error |-> "none", current_index |-> i,
                screen |-> Page("flash", <<>>, IdSeq(current_q.row), rev)]

\* Lines 300-318: the Bookmarks page.
BookmarksPage(table, bm, idx) ==
  IF bm = {}
  THEN [error |-> "none", current_index |-> idx,
        screen |-> Page("no_bookmarks", <<>>, <<>>, FALSE)]
  ELSE [error |-> "none", current_index |-> idx,
        screen |-> Page("bookmarks", IdSeq(bookmark_df(table, bm)), <<>>, FALSE)]

\* Lines 168-214: the Browse page.
BrowsePage(filtered, query, idx) ==
  [error |-> "none", current_index |-> idx,
   screen |-> Page("browse", IdSeq(display_df(filtered, query)), <<>>, FALSE)]

\* One execution of the script from line 120 to the end.  Line 139 reads
\* df['Category'] and raises KeyError on a table without that column.
RunScript(table, m, selected, query, bm, idx, rev) ==
  IF "Category" \notin table.columns
  THEN [error |-> "KeyError", current_index |-> idx, screen |-> CrashPage]
  ELSE LET filtered == filtered_df(table, selected)
       IN CASE m = Browse -> BrowsePage(filtered, query, idx)
            [] m = Flashcards -> FlashcardsPage(filtered, idx, rev)
            [] m = Bookmarks -> BookmarksPage(table, bm, idx)

\* Lines 111-120 and the first run: a new session on the file found.
SessionInit(files) ==
  /\ file \in files
  /\ mode = Browse
  /\ selected_categories = {}
  /\ search_query = <<>>
  /\ bookmarks = {}
  /\ current_index = 0
  /\ reveal = FALSE
  /\ LET run == RunScript(df, Browse, {}, <<>>, {}, 0, FALSE)
     IN /\ error = run.error
        /\ screen = run.screen

\* The session state a handler leaves, followed by the script run that
\* renders it.  A handler that raised (herr) ends the run where it stood.
Finish(m, selected, query, bm, idx, rev, herr) ==
  LET run == IF herr # "none"
             THEN [error |-> herr, current_index |-> idx, screen |-> CrashPage]
             ELSE RunScript(df, m, selected, query, bm, idx, rev)
  IN /\ mode' = m
     /\ selected_categories' = selected
     /\ search_query' = query
     /\ bookmarks' = bm
     /\ current_index' = run.current_index
     /\ reveal' = rev
     /\ error' = run.error
     /\ screen' = run.screen
     /\ UNCHANGED file

\* The sidebar below line 139 is rendered only when that line did not raise.
SidebarShown == "Category" \in df.columns

\* ------------------------------------------------------------------------
\* Actions: one user interaction each
\* ------------------------------------------------------------------------
\* Mutant: switching the mode starts the bookmark set afresh.
SwitchModeForgets(m) ==
  /\ m # mode
  /\ Finish(m, selected_categories, <<>>, {}, current_index, reveal, "none")

\* Lines 131-134: pick another study mode.  A text input that is not
\* rendered in a run loses its value, so the search box comes back empty.
SwitchMode(m) ==
  /\ m # mode
  /\ Finish(m, selected_categories, <<>>, bookmarks, current_index, reveal,
            "none")

\* The changes one interaction with a multiselect makes: an option is
\* added, an option is removed, or the selection is cleared.
MultiselectEdits(options, selected) ==
  { selected \cup {c} : c \in options \ selected }
  \cup { selected \ {c} : c \in selected }
  \cup { {} }

\* Lines 139-145: change the category multiselect.
SelectCategories(selected) ==
  /\ SidebarShown
  /\ selected \in MultiselectEdits(all_categories(df), selected_categories)
  /\ selected # selected_categories
  /\ Finish(mode, selected, search_query, bookmarks, current_index, reveal,
            "none")

\* Line 173: type into the search box of the Browse page.
TypeSearch(query) ==
  /\ screen.kind = "browse"
  /\ query # search_query
  /\ Finish(mode, selected_categories, query, bookmarks, current_index,
            reveal, "none")

\* Mutant: Clear Bookmarks drops only the bookmarks of the filtered view.
ClearBookmarksFiltered ==
  /\ SidebarShown
  /\ Finish(mode, selected_categories, search_query,
            bookmarks \ IdsOf(filtered_df(df, selected_categories)),
            current_index, reveal, "none")

\* Lines 155-157: the sidebar's Clear Bookmarks button.
ClearBookmarks ==
  /\ SidebarShown
  /\ Finish(mode, selected_categories, search_query, {}, current_index,
            reveal, "none")

\* Mutant: the bookmark button always removes.
ToggleBookmarkAlwaysRemoves(bm, id) == set_remove(bm, id)

\* The bookmark toggle shared by lines 207-212 and 272-277.
ToggleBookmark(bm, id) ==
  LET is_bookmarked == id \in bm
  IN IF is_bookmarked THEN set_remove(bm, id)
     ELSE [set |-> set_add(bm, id), error |-> "none"]

\* Mutant: the Browse star bookmarks the row's index label, not its ID.
BrowseBookmarkByIndex(id) ==
  /\ screen.kind = "browse"
  /\ id \in SetOf(screen.listed)
  /\ LET index == (CHOOSE i \in 1..Len(df.rows) : df.rows[i].ID = id) - 1
         res == ToggleBookmark(bookmarks, index)
     IN Finish(mode, selected_categories, search_query, res.set,
               current_index, reveal, res.error)

\* Lines 202-212: the star button of a row listed on the Browse page.
BrowseBookmark(id) ==
  /\ screen.kind = "browse"
  /\ id \in SetOf(screen.listed)
  /\ LET res == ToggleBookmark(bookmarks, id)
     IN Finish(mode, selected_categories, search_query, res.set,
               current_index, reveal, res.error)

\* The rows the Flashcards page works on, and the index it reads at line 229.
FlashRows == filtered_df(df, selected_categories)

FlashIndex == ClampedIndex(current_index, Len(FlashRows))

\* Mutant: the navigation buttons leave the reveal flag as it is.
NavRevealKept == reveal

\* Lines 238, 244, 250: what the navigation buttons store in reveal.
NavReveal == FALSE

\* Lines 236-239: the Previous button.
Previous ==
  /\ screen.kind = "flash"
  /\ Finish(mode, selected_categories, search_query, bookmarks,
            PreviousIndex(FlashIndex, Len(FlashRows)), NavReveal, "none")

\* Lines 242-245: the Random Question button; randint(0, n - 1) picks k.
Random(k) ==
  /\ screen.kind = "flash"
  /\ k \in RandomIndexes(Len(FlashRows))
  /\ Finish(mode, selected_categories, search_query, bookmarks, k, NavReveal,
            "none")

\* Lines 248-251: the Next button.
NextCard ==
  /\ screen.kind = "flash"
  /\ Finish(mode, selected_categories, search_query, bookmarks,
            NextIndex(FlashIndex, Len(FlashRows)), NavReveal, "none")

\* Mutant: bookmarking the current card hides its answer again.
FlashBookmarkHides ==
  /\ screen.kind = "flash"
  /\ LET q_id == screen.card[1]
         res == ToggleBookmark(bookmarks, q_id)
     IN Finish(mode, selected_categories, search_query, res.set, FlashIndex,
               FALSE, res.error)

\* Lines 258, 272-277: the bookmark button of the current card.
FlashBookmark ==
  /\ screen.kind = "flash"
  /\ LET q_id == screen.card[1]
         res == ToggleBookmark(bookmarks, q_id)
     IN Finish(mode, selected_categories, search_query, res.set, FlashIndex,
               reveal, res.error)

\* Mutant: the Reveal Answer button shows the answer and never hides it.
RevealAnswerShows ==
  /\ screen.kind = "flash"
  /\ Finish(mode, selected_categories, search_query, bookmarks, FlashIndex,
            TRUE, "none")

\* Lines 279-282: the Reveal Answer button flips the flag; the same run
\* goes on to render the answer section.
RevealAnswer ==
  /\ screen.kind = "flash"
  /\ Finish(mode, selected_categories, search_query, bookmarks, FlashIndex,
            ~reveal, "none")

FeedbackButtons == {"hard", "okay", "easy"}

\* Mutant: Easy moves on to the next card.
FeedbackAdvances(b) ==
  /\ screen.kind = "flash"
  /\ screen.answer
  /\ b \in FeedbackButtons
  /\ Finish(mode, selected_categories, search_query, bookmarks,
            IF b = "easy" THEN NextIndex(FlashIndex, Len(FlashRows))
            ELSE FlashIndex,
            IF b = "easy" THEN FALSE ELSE reveal, "none")

\* Lines 285-295: Hard / Okay / Easy are rendered under a revealed answer;
\* a press reruns the script and nothing reads the button.
Feedback(b) ==
  /\ screen.kind = "flash"
  /\ screen.answer
  /\ b \in FeedbackButtons
  /\ Finish(mode, selected_categories, search_query, bookmarks, FlashIndex,
            reveal, "none")

\* Lines 311-317: the Remove Bookmark button of a row of the Bookmarks page.
RemoveBookmark(id) ==
  /\ screen.kind = "bookmarks"
  /\ id \in SetOf(screen.listed)
  /\ LET res == set_remove(bookmarks, id)
     IN Finish(mode, selected_categories, search_query, res.set,
               current_index, reveal, res.error)

\* ------------------------------------------------------------------------
\* Observation: what the properties below read about the step just taken.
\* The observation variables are written here, never by the actions above.
\* ------------------------------------------------------------------------
NoStreak == [op |-> "none", start |-> 0, n |-> 0]

InitObserved ==
  /\ last = [op |-> "init", arg |-> 0]
  /\ pre = [cursor |-> 0, reveal |-> FALSE]
  /\ streak = NoStreak

\* The interaction op, with the cursor and reveal flag it started from
\* (arg: the id an operation of the bookmark set was called with, else 0).
Observe(op) ==
  /\ last' = [op |-> op, arg |-> 0]
  /\ pre' = [cursor |-> current_index, reveal |-> reveal]
  /\ streak' = NoStreak

\* ------------------------------------------------------------------------
\* Specification of a session
\* ------------------------------------------------------------------------
\* Search strings the user types in a session.
UserQueries == { <<>>, <<"U","S","E","E","F","F","E","C","T">> }

\* Files a session is started on.
SessionFiles ==
  FailingFiles \cup
  { f \in WellFormedFiles : Len(f.rows) = MaxRows /\ f.rows[1].ID = 7 }

Init == SessionInit(SessionFiles) /\ InitObserved

Next ==
  \/ \E m \in Modes : SwitchMode(m) /\ Observe("mode")
  \/ \E selected \in MultiselectEdits(all_categories(df), selected_categories) :
        SelectCategories(selected) /\ Observe("filter")
  \/ \E query \in UserQueries : TypeSearch(query) /\ Observe("search")
  \/ ClearBookmarks /\ Observe("clear")
  \/ \E id \in IdsOf(df.rows) : BrowseBookmark(id) /\ Observe("browse_bm")
  \/ Previous /\ Observe("previous")
  \/ \E k \in 0..(Len(df.rows) - 1) : Random(k) /\ Observe("random")
  \/ NextCard /\ Observe("next")
  \/ FlashBookmark /\ Observe("flash_bm")
  \/ RevealAnswer /\ Observe("reveal")
  \/ \E b \in FeedbackButtons : Feedback(b) /\ Observe(b)
  \/ \E id \in IdsOf(df.rows) : RemoveBookmark(id) /\ Observe("remove_bm")

Spec == Init /\ [][Next]_vars

\* ------------------------------------------------------------------------
\* Properties of a session
\* ------------------------------------------------------------------------
\* The card the Flashcards page shows for the current session state.
CardUnderCursor ==
  IF FlashRows = <<>> \/ FlashIndex >= Len(FlashRows) THEN <<>>
  ELSE <<FlashRows[FlashIndex + 1].ID>>

\* C1: after any sequence of interactions, whenever the Flashcards page reads
\* the current card from a non-empty filtered view, the cursor is within
\* 0 .. len - 1; no run ever ends in an out-of-range index access.
C1_CursorInRange ==
  /\ error # "IndexError"
  /\ (mode = Flashcards /\ SidebarShown /\ FlashRows # <<>>)
       => /\ current_index \in 0..(Len(FlashRows) - 1)
          /\ screen.kind = "flash"
          /\ screen.card = <<FlashRows[current_index + 1].ID>>

\* A Flashcards page rendered right after a switch from another mode in
\* which the filter had shrunk the view to or below the stored cursor.
C1_Witness ==
  /\ last.op = "mode"
  /\ mode = Flashcards
  /\ screen.kind = "flash"
  /\ pre.cursor >= Len(FlashRows)
  /\ current_index = 0

\* C2: every step that changes which record is under the cursor leaves the
\* reveal flag false, so a shown answer always belongs to the card on which
\* reveal was toggled.
C2_NoStaleReveal ==
  [][CardUnderCursor' # CardUnderCursor => ~reveal']_vars

C4_NoLoadFailureFatal ==
  file \in FailingFiles
    => /\ error = "none"
       /\ \/ df = create_demo_data
          \/ (df.rows = <<>> /\ df.columns = required_cols)

\* C5: next, previous and random each leave the reveal flag false, whatever
\* it was before, and the page rendered hides the answer.
C5_RevealReset ==
  last.op \in {"next", "previous", "random"}
    => /\ ~reveal
       /\ screen.kind = "flash" /\ ~screen.answer

\* A navigation press made while the answer was revealed.
C5_Witness ==
  /\ last.op \in {"next", "previous", "random"}
  /\ pre.reveal
  /\ ~reveal

\* ------------------------------------------------------------------------
\* The filter on its own: every table, category selection and search string
\* ------------------------------------------------------------------------
FilterFiles == {MissingFile} \cup WellFormedFiles

\* Characters of the search strings tried: a letter in both cases and the
\* character ".".
QueryAlphabet == {"a", "A", "."}

RECURSIVE StringsUpTo(_)
\* All strings over QueryAlphabet of length <= n.
StringsUpTo(n) ==
  IF n = 0 THEN { <<>> }
  ELSE LET shorter == StringsUpTo(n - 1)
       IN shorter \cup
          { Append(q, c) : q \in { u \in shorter : Len(u) = n - 1 },
                           c \in QueryAlphabet }

HarnessQueries == StringsUpTo(MaxQueryLen)

InitFilter == SessionInit(FilterFiles) /\ InitObserved

NextFilter ==
  \/ \E selected \in MultiselectEdits(all_categories(df), selected_categories) :
        SelectCategories(selected) /\ Observe("filter")
  \/ \E query \in HarnessQueries : TypeSearch(query) /\ Observe("search")

SpecFilter == InitFilter /\ [][NextFilter]_vars

\* q occurs in text as a substring, letter case ignored.
IsSubstringNoCase(q, text) ==
  \E i \in 0..(Len(text) - Len(q)) :
     \A j \in 1..Len(q) : Lower(q[j]) = Lower(text[i + j])

\* The positions of the table's rows that pass both predicates of the filter.
PassingRows ==
  { i \in 1..Len(df.rows) :
      /\ selected_categories = {} \/ df.rows[i].Category \in selected_categories
      /\ \/ search_query = <<>>
         \/ IsSubstringNoCase(search_query, df.rows[i].Question)
         \/ IsSubstringNoCase(search_query, df.rows[i].Answer) }

\* C6: the rows the Browse page lists are exactly the rows of the table whose
\* category is selected (any, when nothing is selected) and whose question or
\* answer contains the search string as a case-insensitive substring (any,
\* when it is empty), in table order; on the demo table the selection
\* {System Design} lists ids 501, 502.
C6_FilterCorrectness ==
  screen.kind = "browse"
    => /\ Len(screen.listed) = Cardinality(PassingRows)
       /\ \A k \in 1..Len(screen.listed) :
             \E i \in PassingRows :
                /\ df.rows[i].ID = screen.listed[k]
                /\ Cardinality({ h \in PassingRows : h < i }) = k - 1
       /\ (/\ file = MissingFile
           /\ selected_categories = {"System Design"}
           /\ search_query = <<>>) => screen.listed = <<501, 502>>

\* ------------------------------------------------------------------------
\* The cursor on its own: runs of presses of one navigation button
\* ------------------------------------------------------------------------
\* A press of Previous or Next: it extends the run of presses of that button
\* on the current view, or starts a new run at the cursor it found.
ObserveNav(op) ==
  /\ last' = [op |-> op, arg |-> 0]
  /\ pre' = [cursor |-> current_index, reveal |-> reveal]
  /\ streak' = IF streak.op = op /\ streak.n < Len(FlashRows)
               THEN [streak EXCEPT !.n = @ + 1]
               ELSE [op |-> op, start |-> current_index, n |-> 1]

InitCursor == SessionInit(SessionFiles) /\ InitObserved

NextCursor ==
  \/ \E m \in Modes : SwitchMode(m) /\ Observe("mode")
  \/ \E selected \in MultiselectEdits(all_categories(df), selected_categories) :
        SelectCategories(selected) /\ Observe("filter")
  \/ Previous /\ ObserveNav("previous")
  \/ \E k \in 0..(Len(df.rows) - 1) : Random(k) /\ Observe("random")
  \/ NextCard /\ ObserveNav("next")
  \/ RevealAnswer /\ Observe("reveal")

SpecCursor == InitCursor /\ [][NextCursor]_vars

\* C7: on a view of n >= 1 rows, n presses of Next in a row bring the cursor
\* back to where it started, and so do n presses of Previous; Previous at
\* cursor 0 goes to n - 1 and Next at cursor n - 1 goes to 0.
C7_Wraparound ==
  streak.op \in {"next", "previous"}
    => LET n == Len(FlashRows)
       IN /\ streak.start \in 0..(n - 1)
          /\ streak.n = n => current_index = streak.start
          /\ (streak.op = "previous" /\ streak.n = 1 /\ streak.start = 0)
                => current_index = n - 1
          /\ (streak.op = "next" /\ streak.n = 1 /\ streak.start = n - 1)
                => current_index = 0

\* Three presses of Previous from cursor 0 of a three-row view.
C7_Witness ==
  /\ streak.op = "previous"
  /\ Len(FlashRows) = 3
  /\ streak.n = 3
  /\ streak.start = 0
  /\ current_index = 0

\* ------------------------------------------------------------------------
\* The bookmark set on its own: add and remove called with any id
\* ------------------------------------------------------------------------
ObserveCall(op, id) ==
  /\ last' = [op |-> op, arg |-> id]
  /\ pre' = [cursor |-> current_index, reveal |-> reveal]
  /\ streak' = NoStreak

\* Lines 211, 276: st.session_state.bookmarks.add(id), then st.rerun().
bookmarks_add(id) ==
  Finish(mode, selected_categories, search_query, set_add(bookmarks, id),
         current_index, reveal, "none")

\* Lines 209, 274, 316: st.session_state.bookmarks.remove(id), then
\* st.rerun(); an exception ends the run before the rerun.
bookmarks_remove(id) ==
  LET res == set_remove(bookmarks, id)
  IN Finish(mode, selected_categories, search_query, res.set, current_index,
            reveal, res.error)

InitBookmarks == SessionInit({MissingFile}) /\ InitObserved

NextBookmarks ==
  \/ \E id \in IdsOf(df.rows) : bookmarks_add(id) /\ ObserveCall("add", id)
  \/ \E id \in IdsOf(df.rows) : bookmarks_remove(id) /\ ObserveCall("remove", id)

SpecBookmarks == InitBookmarks /\ [][NextBookmarks]_vars

BookmarkOps == {"browse_bm", "flash_bm", "remove_bm", "clear"}

\* C9: only a bookmark button or Clear Bookmarks changes the bookmark set;
\* a mode switch, a filter change, a search, next, previous, random and the
\* reveal toggle leave it as it is.
C9_BookmarksFrame ==
  [][/\ bookmarks' # bookmarks => last'.op \in BookmarkOps
     /\ last'.op \in {"mode", "filter", "search", "next", "previous",
                      "random", "reveal"} => bookmarks' = bookmarks]_vars

\* A mode switch made with a bookmark in the set.
C9_Witness ==
  /\ last.op = "mode"
  /\ bookmarks # {}

\* The position of the row with this id in the table.
RowOf(id) == CHOOSE i \in 1..Len(df.rows) : df.rows[i].ID = id

\* C10: the Bookmarks page lists exactly the rows of the full table whose
\* id is bookmarked, in table order, whatever categories are selected; with
\* only id 3 bookmarked it lists that one row, and with no bookmark left it
\* shows the no-bookmarks message.
C10_BookmarksPage ==
  (mode = Bookmarks /\ error = "none")
    => /\ bookmarks = {} <=> screen.kind = "no_bookmarks"
       /\ bookmarks # {} <=> screen.kind = "bookmarks"
       /\ SetOf(screen.listed) = bookmarks \cap IdsOf(df.rows)
       /\ \A i, j \in 1..Len(screen.listed) :
             i < j => RowOf(screen.listed[i]) < RowOf(screen.listed[j])
       /\ bookmarks = {3} => screen.listed = <<3>>

\* The Bookmarks page listing row 3 while the category filter excludes it.
C10_Witness ==
  /\ mode = Bookmarks
  /\ bookmarks = {3}
  /\ selected_categories = {"System Design"}
  /\ screen.kind = "bookmarks"
  /\ screen.listed = <<3>>

\* C11: the bookmark button of the Flashcards page, whether it adds or
\* removes the bookmark, and the sidebar's Clear Bookmarks button leave the
\* reveal flag and the cursor as they were.
C11_BookmarkKeepsReveal ==
  [][last'.op \in {"flash_bm", "clear"}
       => /\ reveal' = reveal
          /\ current_index' = current_index]_vars

\* The bookmark of a card past the first removed while its answer is shown.
C11_Witness ==
  /\ last.op = "flash_bm"
  /\ screen.kind = "flash"
  /\ screen.card[1] \notin bookmarks
  /\ pre.reveal
  /\ reveal
  /\ screen.answer
  /\ pre.cursor > 0
  /\ current_index = pre.cursor

\* ------------------------------------------------------------------------
\* The reveal toggle: sessions in which runs of consecutive presses of the
\* Reveal Answer button are observed
\* ------------------------------------------------------------------------
\* A press of Reveal Answer.  streak counts the presses made in a row, up to
\* two, with the cursor and the reveal flag the first of them started from.
ObserveReveal ==
  /\ last' = [op |-> "reveal", arg |-> 0]
  /\ pre' = [cursor |-> current_index, reveal |-> reveal]
  /\ streak' = IF streak.op = "reveal" /\ streak.n < 2
                THEN [streak EXCEPT !.n = @ + 1]
                ELSE [op |-> "reveal", start |-> current_index, n |-> 1,
                      before |-> reveal]

InitReveal == SessionInit(SessionFiles) /\ InitObserved

NextReveal ==
  \/ \E m \in Modes : SwitchMode(m) /\ Observe("mode")
  \/ \E selected \in MultiselectEdits(all_categories(df), selected_categories) :
        SelectCategories(selected) /\ Observe("filter")
  \/ Previous /\ Observe("previous")
  \/ NextCard /\ Observe("next")
  \/ RevealAnswer /\ ObserveReveal
  \/ \E b \in FeedbackButtons : Feedback(b) /\ Observe(b)

SpecReveal == InitReveal /\ [][NextReveal]_vars

\* C12: a session starts with the answer hidden and the cursor at 0; every
\* press of Reveal Answer flips the reveal flag and leaves the cursor where
\* it was; two presses in a row bring the flag back to the value it had
\* before the first.
C12_RevealToggle ==
  /\ last.op = "init" => (~reveal /\ current_index = 0)
  /\ last.op = "reveal"
       => /\ reveal = ~pre.reveal
          /\ current_index = pre.cursor
          /\ screen.answer = reveal
  /\ (streak.op = "reveal" /\ streak.n = 2)
       => /\ reveal = streak.before
          /\ current_index = streak.start

\* Hidden -> Shown -> Hidden by two presses in a row on a card past the first.
C12_Witness ==
  /\ streak.op = "reveal"
  /\ streak.n = 2
  /\ ~streak.before
  /\ pre.reveal
  /\ ~reveal
  /\ current_index > 0

\* C13: a press of Hard, Okay or Easy leaves the cursor, the reveal flag,
\* the bookmark set and the category filter unchanged: the same card stays
\* on the page with its answer still shown.
C13_FeedbackInert ==
  [][last'.op \in FeedbackButtons
       => /\ current_index' = current_index
          /\ reveal' = reveal
          /\ bookmarks' = bookmarks
          /\ selected_categories' = selected_categories
          /\ screen' = screen
          /\ screen'.kind = "flash"
          /\ screen'.answer]_vars

\* Easy pressed on a bookmarked card past the first, under a category filter.
C13_Witness ==
  /\ last.op = "easy"
  /\ screen.kind = "flash"
  /\ screen.answer
  /\ reveal
  /\ current_index > 0
  /\ screen.card[1] \in bookmarks
  /\ selected_categories # {}

\* The Random Question button can leave the cursor at k.
RandomCanPick(k) == ENABLED (Random(k) /\ current_index' = k)

\* C14: on a Flashcards page over a filtered view of n >= 1 rows, Random
\* Question leaves the cursor at an index of 0 .. n - 1, and every index of
\* that range, the current one included, is a possible outcome.
C14_RandomRange ==
  /\ last.op = "random"
       => /\ current_index \in 0..(Len(FlashRows) - 1)
          /\ screen.kind = "flash"
          /\ screen.card = <<FlashRows[current_index + 1].ID>>
  /\ screen.kind = "flash"
       => /\ Len(FlashRows) >= 1
          /\ \A k \in 0..(Len(FlashRows) - 1) : RandomCanPick(k)
          /\ \A k \in (-1)..Len(df.rows) :
                RandomCanPick(k) => k \in 0..(Len(FlashRows) - 1)

\* Random Question drew the card that was already shown, out of several.
C14_Witness ==
  /\ last.op = "random"
  /\ Len(FlashRows) >= 2
  /\ pre.cursor > 0
  /\ current_index = pre.cursor

\* ------------------------------------------------------------------------
\* The bookmark buttons: sessions in which every press of a button that
\* writes the bookmark set is observed with the set it found
\* ------------------------------------------------------------------------
\* A press of a bookmark button on the row id (0 for Clear Bookmarks).
\* streak counts the presses of the same button on the same row made in a
\* row, up to two, with the bookmark set the first of them started from.
ObserveMarks(op, id) ==
  /\ last' = [op |-> op, arg |-> id]
  /\ pre' = [cursor |-> current_index, reveal |-> reveal]
  /\ streak' = IF streak.op = op /\ streak.start = id /\ streak.n < 2
                THEN [streak EXCEPT !.n = @ + 1]
                ELSE [op |-> op, start |-> id, n |-> 1, before |-> bookmarks]

InitMarks == SessionInit(SessionFiles) /\ InitObserved

NextMarks ==
  \/ \E m \in Modes : SwitchMode(m) /\ Observe("mode")
  \/ \E selected \in MultiselectEdits(all_categories(df), selected_categories) :
        SelectCategories(selected) /\ Observe("filter")
  \/ ClearBookmarks /\ ObserveMarks("clear", 0)
  \/ \E id \in IdsOf(df.rows) :
        BrowseBookmark(id) /\ ObserveMarks("browse_bm", id)
  \/ NextCard /\ Observe("next")
  \/ FlashBookmark /\ ObserveMarks("flash_bm", screen.card[1])
  \/ RevealAnswer /\ Observe("reveal")
  \/ \E id \in IdsOf(df.rows) :
        RemoveBookmark(id) /\ ObserveMarks("remove_bm", id)

SpecMarks == InitMarks /\ [][NextMarks]_vars

\* Line 152: the bookmark count of the sidebar.
bookmarked_q == Cardinality(bookmarks)

\* Lines 203, 258: whether a rendered row is shown as bookmarked.
is_bookmarked(id) == id \in bookmarks

\* C15: after Clear Bookmarks, pressed in any mode on any bookmark set, the
\* set is empty, the sidebar counts 0 bookmarks, no row is shown as
\* bookmarked, and the Bookmarks page shows the no-bookmarks message.
C15_ClearEmpties ==
  last.op = "clear"
    => /\ bookmarks = {}
       /\ bookmarked_q = 0
       /\ \A id \in IdsOf(df.rows) : ~is_bookmarked(id)
       /\ error = "none"
       /\ mode = Bookmarks <=> screen.kind = "no_bookmarks"

\* Clear Bookmarks pressed on the Bookmarks page with several rows listed.
C15_Witness ==
  /\ last.op = "clear"
  /\ streak.n = 1
  /\ Cardinality(streak.before) >= 2
  /\ mode = Bookmarks
  /\ screen.kind = "no_bookmarks"

\* The buttons whose handler may call bookmarks.remove.
RemovingOps == {"browse_bm", "flash_bm", "remove_bm"}

\* C16: no press of the Browse star, the Flashcard bookmark button or the
\* Remove Bookmark button ever calls bookmarks.remove on an id that is not
\* in the set: every Remove Bookmark button rendered belongs to a bookmarked
\* row, a press on a bookmarked row removes exactly that id, and no run ends
\* in the KeyError of set.remove.  The Browse star or the Flashcard button
\* pressed twice in a row on the same row restores the set.
C16_RemoveNeverFails ==
  /\ SidebarShown => error # "KeyError"
  /\ screen.kind = "bookmarks" => SetOf(screen.listed) \subseteq bookmarks
  /\ (last.op \in RemovingOps /\ streak.n = 1)
       => /\ last.op = "remove_bm" => last.arg \in streak.before
          /\ bookmarks = IF last.arg \in streak.before
                          THEN streak.before \ {last.arg}
                          ELSE streak.before \cup {last.arg}
  /\ (last.op \in {"browse_bm", "flash_bm"} /\ streak.n = 2)
       => bookmarks = streak.before

\* The Flashcard bookmark button pressed twice in a row on a bookmarked card:
\* removed, then added back.
C16_Witness ==
  /\ last.op = "flash_bm"
  /\ streak.n = 2
  /\ last.arg \in streak.before
  /\ Cardinality(streak.before) >= 2
  /\ bookmarks = streak.before

\* C17: the bookmark set only ever holds ids of rows of the loaded table;
\* the ids being unique, the bookmark count of the sidebar is the number of
\* rows the Bookmarks page lists.
C17_BookmarksWithinTable ==
  SidebarShown
    => /\ bookmarks \subseteq IdsOf(df.rows)
       /\ bookmarked_q = Len(bookmark_df(df, bookmarks))
       /\ (mode = Bookmarks /\ error = "none")
            => Len(screen.listed) = bookmarked_q

\* The Bookmarks page listing every row of the table, all of them bookmarked.
C17_Witness ==
  /\ mode = Bookmarks
  /\ screen.kind = "bookmarks"
  /\ bookmarks = IdsOf(df.rows)
  /\ bookmarked_q >= 2
  /\ Len(screen.listed) = bookmarked_q

\* ------------------------------------------------------------------------
\* Tours: sessions in which runs of consecutive presses of Previous and Next
\* are observed
\* ------------------------------------------------------------------------
\* A press of Previous or Next.  streak keeps, for the presses made in a row
\* on one filtered view (at most one more than the view has rows), the
\* buttons pressed (path) and the cursor each press started from (trail).
ObserveTour(op) ==
  /\ last' = [op |-> op, arg |-> 0]
  /\ pre' = [cursor |-> current_index, reveal |-> reveal]
  /\ streak' = IF streak.op = "tour" /\ streak.n <= Len(FlashRows)
                THEN [streak EXCEPT !.n = @ + 1,
                                    !.path = Append(@, op),
                                    !.trail = Append(@, current_index)]
                ELSE [op |-> "tour", start |-> current_index, n |-> 1,
                      path |-> <<op>>, trail |-> <<current_index>>]

InitTour == SessionInit(SessionFiles) /\ InitObserved

NextTour ==
  \/ \E m \in Modes : SwitchMode(m) /\ Observe("mode")
  \/ \E selected \in MultiselectEdits(all_categories(df), selected_categories) :
        SelectCategories(selected) /\ Observe("filter")
  \/ Previous /\ ObserveTour("previous")
  \/ NextCard /\ ObserveTour("next")

SpecTour == InitTour /\ [][NextTour]_vars

\* The cursors a tour has shown: where each press started, then where the
\* last one arrived.
Visited == Append(streak.trail, current_index)

\* C18: on a filtered view of n >= 1 rows, Next followed by Previous, and
\* Previous followed by Next, bring the cursor back to where it was; and
\* n - 1 presses of Next in a row, from any cursor, show every index of
\* 0 .. n - 1 exactly once.
C18_RoundTripAndTour ==
  streak.op = "tour"
    => LET n == Len(FlashRows)
           path == streak.path
       IN /\ n >= 1
          /\ \A i \in 1..(Len(path) - 1) :
                path[i] # path[i + 1] => Visited[i + 2] = Visited[i]
          /\ \A i \in 1..Len(Visited) :
                (/\ i + n - 1 <= Len(Visited)
                 /\ \A j \in i..(i + n - 2) : path[j] = "next")
                  => /\ { Visited[j] : j \in i..(i + n - 1) } = 0..(n - 1)
                     /\ \A j, k \in i..(i + n - 1) :
                           j # k => Visited[j] # Visited[k]

\* Previous then Next on the first of three cards, back to it over the
\* wrap, then on through the other two cards.
C18_Witness ==
  /\ streak.op = "tour"
  /\ Len(FlashRows) = 3
  /\ streak.path = <<"previous", "next", "next", "next">>
  /\ Visited = <<0, 2, 0, 1, 2>>

====
